---- MODULE Spec2Model ----
(***************************************************************************)
(* CollegeMate backend (src/backend/server.js): the follow graph kept in   *)
(* the User documents, the likes, shares and comments kept in the Post     *)
(* documents, and the profile and post listings read from them.            *)
(*                                                                         *)
(* Every Express handler is an async function: it runs without             *)
(* interruption up to each `await` of a storage call and other requests    *)
(* run in between.  A handler is therefore a small process: one action     *)
(* per stretch of code between two awaits, the storage call taking effect  *)
(* in the action that resumes after it.                                    *)
(*                                                                         *)
(* Ids arrive as JSON strings and are cast to ObjectIds by Mongoose.  The  *)
(* cast is not injective: a 24-digit hex string names the same ObjectId    *)
(* in lower and in upper case, and ObjectId.toString() always yields the   *)
(* lower-case spelling.  A string is modelled as <<n, form>>.              *)
(*                                                                         *)
(* doc.save() sends only what the handler changed: array.push(x) becomes   *)
(* an atomic $push, an assigned array becomes a $set that is guarded by    *)
(* the document's version key __v (VersionError when __v has moved since   *)
(* the document was loaded), an assigned number becomes a plain $set, and  *)
(* an array assigned an equal value is not written at all.  Both array     *)
(* writes increment __v.  __v only grows, so "the __v the request loaded   *)
(* is still current" is kept as one flag per loaded document (stale).      *)
(***************************************************************************)
EXTENDS Integers, Sequences, FiniteSets, TLC

\* Bounds of the model.
MaxUsers == 2
MaxPosts == 2
MaxLen == 2
MaxLikes == 3
MaxSlots == 2
MaxShares == 3
MaxTime == 2

ObjectIds == 1..MaxUsers
PostIds == 1..MaxPosts
Slots == 1..MaxSlots
Emails == 1..MaxUsers
Times == 1..MaxTime

\* ------------------------------------------------------------------ ids
\* Request strings.  <<0,"empty">> is "" (falsy), <<0,"bad">> is a string no
\* ObjectId can be cast from, <<n,"lower">> is the canonical hex spelling of
\* ObjectId n and <<n,"upper">> the same digits in upper case.
Empty == <<0, "empty">>
Bad == <<0, "bad">>
Canonical == {"lower"}
AnyCase == {"lower", "upper"}
IdStrings(ids, forms) == {Empty, Bad} \cup (ids \X forms)

\* !userId
IsFalsy(s) == s = Empty
\* mongoose castObjectId: the spellings it accepts, and the ObjectId it yields
IsObjectId(s) == s[2] \in AnyCase
CastObjectId(s) == s[1]
\* ObjectId.prototype.toString(): lower-case hex
toString(oid) == <<oid, "lower">>

\* MongooseArray.includes(str): obj == this[i], the element coerced by toString
Includes(arr, s) == \E i \in 1..Len(arr) : toString(arr[i]) = s

\* The filter with its test inverted (=== for !==).
FilterOutKeep(arr, s) == SelectSeq(arr, LAMBDA x : toString(x) = s)

\* arr.filter((id) => id.toString() !== s)
FilterOut(arr, s) == SelectSeq(arr, LAMBDA x : toString(x) # s)

Max(a, b) == IF a >= b THEN a ELSE b
Count(arr, x) == Cardinality({i \in 1..Len(arr) : arr[i] = x})
Range(arr) == {arr[i] : i \in 1..Len(arr)}

\* ---------------------------------------------------------------- state
VARIABLES
    users,      \* the _ids of the stored User documents
    emailOf,    \* User.email
    following,  \* User.following, an array of ObjectIds
    followers,  \* User.followers, an array of ObjectIds
    posts,      \* the _ids of the stored Post documents
    post,       \* the Post documents: userId, likes, likedBy, shares, comments
    pc,         \* per request slot: where its handler stands
    req,        \* per slot: the route and the request body
    loc,        \* per slot: the handler's local documents (me, them, post)
    res,        \* per slot: the response sent
    hist        \* history of the request being served: whether a step of it
                \* has changed the store (wrote); whether, when it came in,
                \* its second id was in the following of its first (fwd) and
                \* its first in the followers of its second (back); the Post
                \* documents when it came in (pre); whether it repeats the
                \* request served before it (again) and, if so, the Post
                \* documents when that one came in (first) and the body
                \* that one was answered with (last)

vars == <<users, emailOf, following, followers, posts, post, pc, req, loc, res, hist>>

NullUser == [id |-> 0, following |-> <<>>, followers |-> <<>>, stale |-> FALSE]
NullPost == [id |-> 0, likes |-> 0, likedBy |-> <<>>, shares |-> 0, comments |-> <<>>,
             createdAt |-> 0, op |-> "none", stale |-> FALSE]
NoLoc == [me |-> NullUser, them |-> NullUser, post |-> NullPost]
NoReq == [op |-> "none", a |-> Empty, b |-> Empty]
\* A non-empty post text.
Text == <<0, "text">>
NoRes == [status |-> 0, err |-> "none", body |-> <<>>]
NewPost == [userId |-> 0, likes |-> 0, likedBy |-> <<>>, shares |-> 0, comments |-> <<>>,
            createdAt |-> 0]

\* The stored data.
Db == [users |-> users, emailOf |-> emailOf, following |-> following,
       followers |-> followers, posts |-> posts, post |-> post]

Init ==
    /\ users = {}
    /\ emailOf = [u \in ObjectIds |-> 0]
    /\ following = [u \in ObjectIds |-> <<>>]
    /\ followers = [u \in ObjectIds |-> <<>>]
    /\ posts = {}
    /\ post = [p \in PostIds |-> NewPost]
    /\ pc = [r \in Slots |-> "idle"]
    /\ req = [r \in Slots |-> NoReq]
    /\ loc = [r \in Slots |-> NoLoc]
    /\ res = [r \in Slots |-> NoRes]
    /\ hist = [wrote |-> FALSE, fwd |-> FALSE, back |-> FALSE, pre |-> post,
               again |-> FALSE, first |-> post, last |-> <<>>]

Free(r) == pc[r] \in {"idle", "done"}
InFlight(r) == ~Free(r)

\* A request enters slot r: a free slot takes any request, and with seq
\* (requests are served one after another) a slot that has answered takes the
\* same request once more.  With seq the history starts anew and notes
\* whether the request repeats one that was answered 200.  Without seq a
\* slot serves one request, and the requests of different slots overlap.
Accept(r, op, a, b, seq) ==
    /\ \/ pc[r] = "idle"
       \/ seq /\ pc[r] = "done" /\ req[r] = [op |-> op, a |-> a, b |-> b]
    /\ req' = [req EXCEPT ![r] = [op |-> op, a |-> a, b |-> b]]
    /\ hist' = IF seq
               THEN [wrote |-> Db' # Db,
                     fwd |-> /\ op \in {"follow", "unfollow"}
                             /\ IsObjectId(a) /\ IsObjectId(b)
                             /\ CastObjectId(b) \in Range(following[CastObjectId(a)]),
                     back |-> /\ op \in {"follow", "unfollow"}
                              /\ IsObjectId(a) /\ IsObjectId(b)
                              /\ CastObjectId(a) \in Range(followers[CastObjectId(b)]),
                     pre |-> post,
                     again |-> pc[r] = "done" /\ res[r].status = 200,
                     first |-> IF pc[r] = "done" /\ res[r].status = 200
                               THEN hist.pre ELSE post,
                     last |-> IF pc[r] = "done" /\ res[r].status = 200
                              THEN res[r].body ELSE <<>>]
               ELSE hist

\* The response has gone out and the slot is free for any request.
Retire(r) ==
    /\ pc[r] = "done"
    /\ pc' = [pc EXCEPT ![r] = "idle"]
    /\ req' = [req EXCEPT ![r] = NoReq]
    /\ res' = [res EXCEPT ![r] = NoRes]
    /\ hist' = [wrote |-> FALSE, fwd |-> FALSE, back |-> FALSE, pre |-> post,
                again |-> FALSE, first |-> post, last |-> <<>>]
    /\ UNCHANGED <<users, emailOf, following, followers, posts, post, loc>>

\* res.status(n).json(...) of a request that was just accepted; l is the
\* handlers' local state after the step.
Reply(r, l, status, err) ==
    /\ pc' = [pc EXCEPT ![r] = "done"]
    /\ res' = [res EXCEPT ![r] = [status |-> status, err |-> err, body |-> <<>>]]
    /\ loc' = [l EXCEPT ![r] = NoLoc]

\* The handler goes on to its first storage call.
Start(r, label) ==
    /\ pc' = [pc EXCEPT ![r] = label]
    /\ res' = [res EXCEPT ![r] = NoRes]
    /\ UNCHANGED loc

\* res.status(n).json(...) after a storage call.
Finish(r, l, status, err) ==
    /\ Reply(r, l, status, err)
    /\ hist' = [hist EXCEPT !.wrote = @ \/ Db' # Db]
    /\ UNCHANGED req

\* res.status(200).json(body) after a storage call.
FinishWith(r, l, body) ==
    /\ pc' = [pc EXCEPT ![r] = "done"]
    /\ res' = [res EXCEPT ![r] = [status |-> 200, err |-> "none", body |-> body]]
    /\ loc' = [l EXCEPT ![r] = NoLoc]
    /\ hist' = [hist EXCEPT !.wrote = @ \/ Db' # Db]
    /\ UNCHANGED req

\* The handler suspends at its next storage call.
Continue(r, l, label) ==
    /\ pc' = [pc EXCEPT ![r] = label]
    /\ loc' = l
    /\ hist' = [hist EXCEPT !.wrote = @ \/ Db' # Db]
    /\ UNCHANGED <<req, res>>

\* User.findById(id): the document as stored now, or null.
FindUser(s) ==
    IF CastObjectId(s) \in users
    THEN [id |-> CastObjectId(s), following |-> following[CastObjectId(s)],
          followers |-> followers[CastObjectId(s)], stale |-> FALSE]
    ELSE NullUser

\* A write to user u that increments __v: every copy of u loaded before it,
\* in any handler, now carries an old __v.
StaleUsers(l, u) ==
    [r \in Slots |->
        [l[r] EXCEPT !.me.stale = @ \/ (l[r].me.id = u),
                     !.them.stale = @ \/ (l[r].them.id = u)]]

\* A write to post p that increments __v.
StalePosts(l, p) ==
    [r \in Slots |-> [l[r] EXCEPT !.post.stale = @ \/ (l[r].post.id = p)]]

UnchangedGraph == UNCHANGED <<users, emailOf, following, followers>>
UnchangedPosts == UNCHANGED <<posts, post>>

\* --------------------------------------------------------------- signup
\* POST /signup, lines 101-105: the check on the body.  email = 0 stands
\* for a body with a field missing.
SignupBegin(r, email, seq) ==
    /\ UnchangedGraph /\ UnchangedPosts
    /\ Accept(r, "signup", <<email, "email">>, Empty, seq)
    /\ IF email = 0
       THEN Reply(r, loc, 400, "none")
       ELSE Start(r, "signup:findOne")

\* lines 105-109: existingUser = await User.findOne({ email }) and the 400.
SignupFindOne(r) ==
    /\ pc[r] = "signup:findOne"
    /\ UnchangedGraph /\ UnchangedPosts
    /\ IF \E u \in users : emailOf[u] = req[r].a[1]
       THEN Finish(r, loc, 400, "none")
       ELSE Continue(r, loc, "signup:hash")

\* lines 109-119: hashedPassword = await bcrypt.hash(password, 10) and
\* new User(...).
SignupHash(r) ==
    /\ pc[r] = "signup:hash"
    /\ UnchangedGraph /\ UnchangedPosts
    /\ Continue(r, loc, "signup:save")

\* lines 119-120: await newUser.save() inserts the document under a fresh
\* _id (the model takes the smallest unused one); the unique index on email
\* rejects it when a user with that email has been stored meanwhile.
SignupSave(r) ==
    /\ pc[r] = "signup:save"
    /\ UnchangedPosts
    /\ UNCHANGED <<following, followers>>
    /\ IF \E u \in users : emailOf[u] = req[r].a[1]
       THEN /\ UNCHANGED <<users, emailOf>>
            /\ Finish(r, loc, 500, "DuplicateKey")
       ELSE /\ users # ObjectIds
            /\ LET id == CHOOSE u \in ObjectIds \ users : \A o \in ObjectIds \ users : u <= o
               IN  /\ users' = users \cup {id}
                   /\ emailOf' = [emailOf EXCEPT ![id] = req[r].a[1]]
            /\ Finish(r, loc, 201, "none")

\* ------------------------------------------------------- profile update
\* POST /profile/update, lines 197-204: the check on the body.  Of the
\* fields the handler copies only email is kept by the model; email = 0
\* stands for a body without it.
ProfileUpdateBegin(r, userId, email, seq) ==
    /\ UnchangedGraph /\ UnchangedPosts
    /\ Accept(r, "update", userId, <<email, "email">>, seq)
    /\ IF IsFalsy(userId)
       THEN Reply(r, loc, 400, "none")
       ELSE Start(r, "update:find")

\* lines 204-209: updatedUser = await User.findByIdAndUpdate(userId,
\* updateData, { new: true }), the 404 and the response.  The update is one
\* atomic $set; the unique index on email rejects an email another user
\* has.  With email undefined in updateData the $set either leaves the
\* field out or sets it to null, depending on the Mongoose release; null is
\* the 0 of emailOf, and the index allows it once.
ProfileUpdateFind(r) ==
    /\ pc[r] = "update:find"
    /\ UnchangedPosts
    /\ UNCHANGED <<users, following, followers>>
    /\ IF ~IsObjectId(req[r].a)
       THEN /\ UNCHANGED emailOf
            /\ Finish(r, loc, 500, "CastError")
       ELSE IF CastObjectId(req[r].a) \notin users
       THEN /\ UNCHANGED emailOf
            /\ Finish(r, loc, 404, "none")
       ELSE LET u == CastObjectId(req[r].a)
                email == req[r].b[1]
            IN  \/ /\ email = 0
                   /\ UNCHANGED emailOf
                   /\ Finish(r, loc, 200, "none")
                \/ /\ \E o \in users \ {u} : emailOf[o] = email
                   /\ UNCHANGED emailOf
                   /\ Finish(r, loc, 500, "DuplicateKey")
                \/ /\ ~\E o \in users \ {u} : emailOf[o] = email
                   /\ emailOf' = [emailOf EXCEPT ![u] = email]
                   /\ Finish(r, loc, 200, "none")

\* --------------------------------------------------------------- follow
\* The handler without its userId === targetId check.
FollowBeginNoSelfCheck(r, userId, targetId, seq) ==
    /\ UnchangedGraph /\ UnchangedPosts
    /\ Accept(r, "follow", userId, targetId, seq)
    /\ IF IsFalsy(userId) \/ IsFalsy(targetId)
       THEN Reply(r, loc, 400, "none")
       ELSE Start(r, "follow:findMe")

\* POST /user/follow, lines 221-229: the checks on the body.
FollowBegin(r, userId, targetId, seq) ==
    /\ UnchangedGraph /\ UnchangedPosts
    /\ Accept(r, "follow", userId, targetId, seq)
    /\ IF IsFalsy(userId) \/ IsFalsy(targetId)
       THEN Reply(r, loc, 400, "none")
       ELSE IF userId = targetId
       THEN Reply(r, loc, 400, "none")
       ELSE Start(r, "follow:findMe")

\* line 229: me = await User.findById(userId)
FollowFindMe(r) ==
    /\ pc[r] = "follow:findMe"
    /\ UnchangedGraph /\ UnchangedPosts
    /\ IF ~IsObjectId(req[r].a)
       THEN Finish(r, loc, 500, "CastError")
       ELSE Continue(r, [loc EXCEPT ![r].me = FindUser(req[r].a)], "follow:findThem")

\* The handler without its second push: it answers after me.save().
FollowThenSkip(r, l) == Finish(r, l, 200, "none")

\* lines 240-246, what follows me.save(): the second push, or the response.
FollowThen(r, l) ==
    IF ~Includes(l[r].them.followers, req[r].a)
    THEN Continue(r, [l EXCEPT ![r].them.followers = Append(@, CastObjectId(req[r].a))],
                  "follow:saveThem")
    ELSE Finish(r, l, 200, "none")

\* The handler with && for || in its 404 check: with one of the two
\* documents null, reading its array throws a TypeError and the catch block
\* answers 500.
FollowFindThemAnd(r) ==
    /\ pc[r] = "follow:findThem"
    /\ UnchangedGraph /\ UnchangedPosts
    /\ IF ~IsObjectId(req[r].b)
       THEN Finish(r, loc, 500, "CastError")
       ELSE LET l == [loc EXCEPT ![r].them = FindUser(req[r].b)]
            IN  IF l[r].me.id = 0 /\ l[r].them.id = 0
                THEN Finish(r, l, 404, "none")
                ELSE IF l[r].me.id = 0 \/ l[r].them.id = 0
                THEN Finish(r, l, 500, "TypeError")
                ELSE IF ~Includes(l[r].me.following, req[r].b)
                THEN Continue(r, [l EXCEPT ![r].me.following = Append(@, CastObjectId(req[r].b))],
                              "follow:saveMe")
                ELSE FollowThen(r, l)

\* lines 230-238: them = await User.findById(targetId), the 404 and the
\* first push.
FollowFindThem(r) ==
    /\ pc[r] = "follow:findThem"
    /\ UnchangedGraph /\ UnchangedPosts
    /\ IF ~IsObjectId(req[r].b)
       THEN Finish(r, loc, 500, "CastError")
       ELSE LET l == [loc EXCEPT ![r].them = FindUser(req[r].b)]
            IN  IF l[r].me.id = 0 \/ l[r].them.id = 0
                THEN Finish(r, l, 404, "none")
                ELSE IF ~Includes(l[r].me.following, req[r].b)
                THEN Continue(r, [l EXCEPT ![r].me.following = Append(@, CastObjectId(req[r].b))],
                              "follow:saveMe")
                ELSE FollowThen(r, l)

\* line 238: await me.save() sends $push following and $inc __v.
FollowSaveMe(r) ==
    /\ pc[r] = "follow:saveMe"
    /\ Len(following[loc[r].me.id]) < MaxLen
    /\ following' = [following EXCEPT ![loc[r].me.id] = Append(@, CastObjectId(req[r].b))]
    /\ UNCHANGED <<users, emailOf, followers>> /\ UnchangedPosts
    /\ FollowThen(r, StaleUsers(loc, loc[r].me.id))

\* line 243: await them.save() sends $push followers and $inc __v.
FollowSaveThem(r) ==
    /\ pc[r] = "follow:saveThem"
    /\ Len(followers[loc[r].them.id]) < MaxLen
    /\ followers' = [followers EXCEPT ![loc[r].them.id] = Append(@, CastObjectId(req[r].a))]
    /\ UNCHANGED <<users, emailOf, following>> /\ UnchangedPosts
    /\ Finish(r, StaleUsers(loc, loc[r].them.id), 200, "none")

\* ------------------------------------------------------------- unfollow
\* POST /user/unfollow, lines 258-263: the check on the body.
UnfollowBegin(r, userId, targetId, seq) ==
    /\ UnchangedGraph /\ UnchangedPosts
    /\ Accept(r, "unfollow", userId, targetId, seq)
    /\ IF IsFalsy(userId) \/ IsFalsy(targetId)
       THEN Reply(r, loc, 400, "none")
       ELSE Start(r, "unfollow:findMe")

\* line 263: me = await User.findById(userId)
UnfollowFindMe(r) ==
    /\ pc[r] = "unfollow:findMe"
    /\ UnchangedGraph /\ UnchangedPosts
    /\ IF ~IsObjectId(req[r].a)
       THEN Finish(r, loc, 500, "CastError")
       ELSE Continue(r, [loc EXCEPT ![r].me = FindUser(req[r].a)], "unfollow:findThem")

\* lines 264-270: them = await User.findById(targetId), the 404, and
\* me.following = me.following.filter(...)
UnfollowFindThem(r) ==
    /\ pc[r] = "unfollow:findThem"
    /\ UnchangedGraph /\ UnchangedPosts
    /\ IF ~IsObjectId(req[r].b)
       THEN Finish(r, loc, 500, "CastError")
       ELSE LET l == [loc EXCEPT ![r].them = FindUser(req[r].b)]
            IN  IF l[r].me.id = 0 \/ l[r].them.id = 0
                THEN Finish(r, l, 404, "none")
                ELSE Continue(r, l, "unfollow:saveMe")

\* lines 270-274: await me.save() sends $set following guarded by __v when
\* the filter removed something, and nothing otherwise; then
\* them.followers = them.followers.filter(...)
UnfollowSaveMe(r) ==
    /\ pc[r] = "unfollow:saveMe"
    /\ UNCHANGED <<users, emailOf, followers>> /\ UnchangedPosts
    /\ LET me == loc[r].me
           kept == FilterOut(me.following, req[r].b)
       IN  IF kept = me.following
           THEN /\ UNCHANGED following
                /\ Continue(r, loc, "unfollow:saveThem")
           ELSE IF me.stale
           THEN /\ UNCHANGED following
                /\ Finish(r, loc, 500, "VersionError")
           ELSE /\ following' = [following EXCEPT ![me.id] = kept]
                /\ Continue(r, StaleUsers(loc, me.id), "unfollow:saveThem")

\* lines 274-277: await them.save(), the same for them.followers, and the
\* response.
UnfollowSaveThem(r) ==
    /\ pc[r] = "unfollow:saveThem"
    /\ UNCHANGED <<users, emailOf, following>> /\ UnchangedPosts
    /\ LET them == loc[r].them
           kept == FilterOut(them.followers, req[r].a)
       IN  IF kept = them.followers
           THEN /\ UNCHANGED followers
                /\ Finish(r, loc, 200, "none")
           ELSE IF them.stale
           THEN /\ UNCHANGED followers
                /\ Finish(r, loc, 500, "VersionError")
           ELSE /\ followers' = [followers EXCEPT ![them.id] = kept]
                /\ Finish(r, StaleUsers(loc, them.id), 200, "none")

\* An awaited call rejects (the store is unreachable): the catch block
\* answers 500 and nothing is written by the call.
StorageCalls == {"signup:findOne", "signup:hash", "signup:save", "update:find",
                 "follow:findMe", "follow:findThem", "follow:saveMe", "follow:saveThem",
                 "unfollow:findMe", "unfollow:findThem", "unfollow:saveMe",
                 "unfollow:saveThem", "post:save", "like:findPost", "like:save",
                 "comment:findPost", "comment:save", "comment:populate",
                 "share:findPost", "share:save", "list:find", "profile:find"}

StorageFailure(r) ==
    /\ pc[r] \in StorageCalls
    /\ UnchangedGraph /\ UnchangedPosts
    /\ Finish(r, loc, 500, "StorageFailure")

\* ----------------------------------------------------------- new post
\* POST /post, lines 329-341: the check on the body and new Post(...),
\* which sets createdAt to Date.now(), the wall clock in milliseconds at
\* this moment (a clock that may stand still, and that nothing keeps from
\* being set back).
CreatePostBegin(r, userId, text, seq) ==
    /\ UnchangedGraph /\ UnchangedPosts
    /\ Accept(r, "post", userId, text, seq)
    /\ IF IsFalsy(userId) \/ IsFalsy(text)
       THEN Reply(r, loc, 400, "none")
       ELSE \E t \in Times :
               /\ pc' = [pc EXCEPT ![r] = "post:save"]
               /\ res' = [res EXCEPT ![r] = NoRes]
               /\ loc' = [loc EXCEPT ![r].post = [NullPost EXCEPT !.createdAt = t,
                                                                   !.op = "create"]]

\* lines 341-342: await newPost.save() validates (userId must cast to an
\* ObjectId) and inserts the document under a fresh _id, with the schema's
\* defaults and the createdAt it was built with.
CreatePostSave(r) ==
    /\ pc[r] = "post:save"
    /\ UnchangedGraph
    /\ IF ~IsObjectId(req[r].a)
       THEN /\ UnchangedPosts
            /\ Finish(r, loc, 500, "ValidationError")
       ELSE /\ posts # PostIds
            /\ LET id == CHOOSE p \in PostIds \ posts : \A q \in PostIds \ posts : p <= q
               IN  /\ posts' = posts \cup {id}
                   /\ post' = [post EXCEPT ![id] =
                                  [NewPost EXCEPT !.userId = CastObjectId(req[r].a),
                                                  !.createdAt = loc[r].post.createdAt]]
            /\ Finish(r, loc, 201, "none")

\* ---------------------------------------------------------- toggle like
\* POST /post/like, lines 372-376: the check on the body.
ToggleLikeBegin(r, postId, userId, seq) ==
    /\ UnchangedGraph /\ UnchangedPosts
    /\ Accept(r, "like", postId, userId, seq)
    /\ IF IsFalsy(postId) \/ IsFalsy(userId)
       THEN Reply(r, loc, 400, "none")
       ELSE Start(r, "like:findPost")

\* lines 380-389 on the loaded document: the like is removed (likedBy is
\* assigned the filtered array) or added (likedBy.push casts userId).
ToggleLike(doc, userId) ==
    IF \E i \in 1..Len(doc.likedBy) : toString(doc.likedBy[i]) = userId
    THEN [doc EXCEPT !.likedBy = FilterOut(doc.likedBy, userId),
                     !.likes = Max(doc.likes - 1, 0),
                     !.op = "set"]
    ELSE [doc EXCEPT !.likedBy = Append(doc.likedBy, CastObjectId(userId)),
                     !.likes = doc.likes + 1,
                     !.op = "push"]

\* lines 376-389: post = await Post.findById(postId), the 404, the toggle.
LikeFindPost(r) ==
    /\ pc[r] = "like:findPost"
    /\ UnchangedGraph /\ UnchangedPosts
    /\ IF ~IsObjectId(req[r].a)
       THEN Finish(r, loc, 500, "CastError")
       ELSE IF CastObjectId(req[r].a) \notin posts
       THEN Finish(r, loc, 404, "none")
       ELSE LET id == CastObjectId(req[r].a)
                doc == [NullPost EXCEPT !.id = id, !.likes = post[id].likes,
                                        !.likedBy = post[id].likedBy]
                toggled == ToggleLike(doc, req[r].b)
            IN  IF toggled.op = "push" /\ ~IsObjectId(req[r].b)
                THEN Finish(r, loc, 500, "CastError")
                ELSE Continue(r, [loc EXCEPT ![r].post = toggled], "like:save")

\* line 390: await post.save().  After a push it sends $push likedBy,
\* $set likes and $inc __v; after the assignment it sends $set likedBy and
\* $set likes guarded by __v, with $inc __v.
LikeSave(r) ==
    /\ pc[r] = "like:save"
    /\ UnchangedGraph /\ UNCHANGED posts
    /\ LET doc == loc[r].post
       IN  IF doc.op = "push"
           THEN /\ Len(post[doc.id].likedBy) < MaxLen
                /\ doc.likes <= MaxLikes
                /\ post' = [post EXCEPT ![doc.id].likedBy = Append(@, CastObjectId(req[r].b)),
                                        ![doc.id].likes = doc.likes]
                /\ Finish(r, StalePosts(loc, doc.id), 200, "none")
           ELSE IF doc.stale
           THEN /\ UNCHANGED post
                /\ Finish(r, loc, 500, "VersionError")
           ELSE /\ post' = [post EXCEPT ![doc.id].likedBy = doc.likedBy,
                                        ![doc.id].likes = doc.likes]
                /\ Finish(r, StalePosts(loc, doc.id), 200, "none")

\* ------------------------------------------------------------- comment
\* commentText of the request in slot r.
CommentText(r) == <<0, req[r].b[3]>>

\* The handler without commentText in its check of the body.
CommentBeginAnyText(r, postId, userId, commentText, seq) ==
    /\ UnchangedGraph /\ UnchangedPosts
    /\ Accept(r, "comment", postId, <<userId[1], userId[2], commentText[2]>>, seq)
    /\ IF IsFalsy(postId) \/ IsFalsy(userId)
       THEN Reply(r, loc, 400, "none")
       ELSE Start(r, "comment:findPost")

\* POST /post/comment, lines 403-407: the check on the body.  The request
\* keeps userId and, after it, whether commentText is empty as its second
\* field.
CommentBegin(r, postId, userId, commentText, seq) ==
    /\ UnchangedGraph /\ UnchangedPosts
    /\ Accept(r, "comment", postId, <<userId[1], userId[2], commentText[2]>>, seq)
    /\ IF IsFalsy(postId) \/ IsFalsy(userId) \/ IsFalsy(commentText)
       THEN Reply(r, loc, 400, "none")
       ELSE Start(r, "comment:findPost")

\* lines 407-419: post = await Post.findById(postId), the 404, and
\* post.comments.push(comment).
CommentFindPost(r) ==
    /\ pc[r] = "comment:findPost"
    /\ UnchangedGraph /\ UnchangedPosts
    /\ IF ~IsObjectId(req[r].a)
       THEN Finish(r, loc, 500, "CastError")
       ELSE IF CastObjectId(req[r].a) \notin posts
       THEN Finish(r, loc, 404, "none")
       ELSE LET id == CastObjectId(req[r].a)
                comment == [userId |-> CastObjectId(req[r].b), text |-> CommentText(r)]
            IN  Continue(r, [loc EXCEPT ![r].post = [NullPost EXCEPT !.id = id,
                                                       !.comments = Append(post[id].comments, comment),
                                                       !.op = "comment"]],
                         "comment:save")

\* A save that writes the comment in front of the stored ones.
CommentSavePrepend(r) ==
    /\ pc[r] = "comment:save"
    /\ UnchangedGraph /\ UNCHANGED posts
    /\ LET id == loc[r].post.id
       IN  IF ~IsObjectId(req[r].b)
           THEN /\ UNCHANGED post
                /\ Finish(r, loc, 500, "ValidationError")
           ELSE /\ Len(post[id].comments) < MaxLen
                /\ post' = [post EXCEPT ![id].comments =
                               <<[userId |-> CastObjectId(req[r].b), text |-> CommentText(r)]>> \o @]
                /\ Continue(r, StalePosts(loc, id), "comment:populate")

\* lines 419-420: await post.save() validates the comment (userId must cast
\* to an ObjectId) and sends $push comments and $inc __v.
CommentSave(r) ==
    /\ pc[r] = "comment:save"
    /\ UnchangedGraph /\ UNCHANGED posts
    /\ LET id == loc[r].post.id
       IN  IF ~IsObjectId(req[r].b)
           THEN /\ UNCHANGED post
                /\ Finish(r, loc, 500, "ValidationError")
           ELSE /\ Len(post[id].comments) < MaxLen
                /\ post' = [post EXCEPT ![id].comments =
                               Append(@, [userId |-> CastObjectId(req[r].b), text |-> CommentText(r)])]
                /\ Continue(r, StalePosts(loc, id), "comment:populate")

\* line 420: populate("comments.userId", ...) joins every comment of the
\* document with the users collection as it is now: the userId of a comment
\* whose user is not stored becomes null, written 0.
Populated(comments) ==
    [i \in 1..Len(comments) |->
        IF comments[i].userId \in users
        THEN comments[i]
        ELSE [comments[i] EXCEPT !.userId = 0]]

\* lines 420-422: await post.populate(...) and the response, which carries
\* the comments of the handler's document.  Document.populate() runs the
\* join in a Mongoose release where it returns a promise; in a release where
\* it only queues the paths for execPopulate() the await populates nothing
\* and the response carries the raw ids.
CommentPopulate(r) ==
    /\ pc[r] = "comment:populate"
    /\ UnchangedGraph /\ UnchangedPosts
    /\ \/ FinishWith(r, loc, Populated(loc[r].post.comments))
       \/ FinishWith(r, loc, loc[r].post.comments)

\* --------------------------------------------------------------- share
\* POST /post/share, lines 434-438: the check on the body.
ShareBegin(r, postId, userId, seq) ==
    /\ UnchangedGraph /\ UnchangedPosts
    /\ Accept(r, "share", postId, userId, seq)
    /\ IF IsFalsy(postId) \/ IsFalsy(userId)
       THEN Reply(r, loc, 400, "none")
       ELSE Start(r, "share:findPost")

\* lines 438-443: post = await Post.findById(postId), the 404, and
\* post.shares += 1 on the loaded document.
ShareFindPost(r) ==
    /\ pc[r] = "share:findPost"
    /\ UnchangedGraph /\ UnchangedPosts
    /\ IF ~IsObjectId(req[r].a)
       THEN Finish(r, loc, 500, "CastError")
       ELSE IF CastObjectId(req[r].a) \notin posts
       THEN Finish(r, loc, 404, "none")
       ELSE LET id == CastObjectId(req[r].a)
            IN  Continue(r, [loc EXCEPT ![r].post = [NullPost EXCEPT !.id = id,
                                                       !.shares = post[id].shares + 1,
                                                       !.op = "share"]],
                         "share:save")

\* lines 443-444: await post.save() sends $set shares with the number the
\* handler computed (no array is touched: no check of __v, no $inc __v).
ShareSave(r) ==
    /\ pc[r] = "share:save"
    /\ UnchangedGraph /\ UNCHANGED posts
    /\ loc[r].post.shares <= MaxShares
    /\ post' = [post EXCEPT ![loc[r].post.id].shares = loc[r].post.shares]
    /\ FinishWith(r, loc, <<loc[r].post.shares>>)

\* ---------------------------------------------------------- list posts
\* GET /posts, lines 458-463: the filter.  An absent userId is the empty
\* string.
ListBegin(r, userId, seq) ==
    /\ UnchangedGraph /\ UnchangedPosts
    /\ Accept(r, "list", userId, Empty, seq)
    /\ Start(r, "list:find")

\* The orders .sort({ createdAt: -1 }) may return the posts of set ps in:
\* every order that never puts an older post before a newer one.
Sorted(ps) ==
    LET RECURSIVE Build(_)
        Build(todo) ==
            IF todo = {} THEN {<<>>}
            ELSE UNION {{<<p>> \o rest : rest \in Build(todo \ {p})} :
                        p \in {q \in todo : \A o \in todo :
                                                post[o].createdAt <= post[q].createdAt}}
    IN  Build(ps)

\* lines 467-483: _id, author and number of comments of each post.
MappedPosts(list) ==
    [i \in 1..Len(list) |-> [id |-> list[i], userId |-> post[list[i]].userId,
                             comments |-> Len(post[list[i]].comments)]]

\* lines 463-485: posts = await Post.find(filter).populate(...).sort(...),
\* the map and the response.  populate leaves null for an author that is
\* not stored, and reading userDoc._id then throws.
ListFind(r) ==
    /\ pc[r] = "list:find"
    /\ UnchangedGraph /\ UnchangedPosts
    /\ IF ~IsFalsy(req[r].a) /\ ~IsObjectId(req[r].a)
       THEN Finish(r, loc, 500, "CastError")
       ELSE LET found == {p \in posts : IsFalsy(req[r].a)
                                        \/ post[p].userId = CastObjectId(req[r].a)}
            IN  IF \E p \in found : post[p].userId \notin users
                THEN Finish(r, loc, 500, "TypeError")
                ELSE \E list \in Sorted(found) : FinishWith(r, loc, MappedPosts(list))

\* -------------------------------------------------------- profile view
\* GET /profile/:id?myId=..., lines 155-159.  An absent myId is the empty
\* string.
ProfileBegin(r, id, myId, seq) ==
    /\ UnchangedGraph /\ UnchangedPosts
    /\ Accept(r, "profile", id, myId, seq)
    /\ Start(r, "profile:find")

\* lines 168-185 on the populated document.
ProfileView(id, myId) ==
    [followersCount |-> Len(followers[CastObjectId(id)]),
     followingCount |-> Len(following[CastObjectId(id)]),
     isFollowing |-> /\ ~IsFalsy(myId) /\ myId # id
                     /\ \E i \in 1..Len(followers[CastObjectId(id)]) :
                           toString(followers[CastObjectId(id)][i]) = myId]

\* lines 159-185: user = await User.findById(id).populate(...), the 404 and
\* the response.
ProfileFind(r) ==
    /\ pc[r] = "profile:find"
    /\ UnchangedGraph /\ UnchangedPosts
    /\ IF ~IsObjectId(req[r].a)
       THEN Finish(r, loc, 500, "CastError")
       ELSE IF CastObjectId(req[r].a) \notin users
       THEN Finish(r, loc, 404, "none")
       ELSE FinishWith(r, loc, <<ProfileView(req[r].a, req[r].b)>>)

GraphSteps(r) ==
    \/ FollowFindMe(r)
    \/ FollowFindThem(r)
    \/ FollowSaveMe(r)
    \/ FollowSaveThem(r)
    \/ UnfollowFindMe(r)
    \/ UnfollowFindThem(r)
    \/ UnfollowSaveMe(r)
    \/ UnfollowSaveThem(r)

\* Requests served one after another: ids in any spelling, empty and
\* malformed ones included, and storage calls that may fail.  Emails are
\* numbered in the order in which they first sign up.
GraphSeqNext ==
    \/ \E email \in {0} \cup Emails :
          /\ email <= Cardinality(users) + 1
          /\ SignupBegin(1, email, TRUE)
    \/ SignupFindOne(1)
    \/ SignupHash(1)
    \/ SignupSave(1)
    \/ \E userId, targetId \in IdStrings(ObjectIds, AnyCase) :
          \/ FollowBegin(1, userId, targetId, TRUE)
          \/ UnfollowBegin(1, userId, targetId, TRUE)
    \/ GraphSteps(1)
    \/ StorageFailure(1)
    \/ Retire(1)

GraphSeq == Init /\ [][GraphSeqNext]_vars

\* A follow graph that canonical requests served one after another leave:
\* both sides of every edge, no edge to oneself, nothing twice.
Edges == {e \in ObjectIds \X ObjectIds : e[1] # e[2]}
SeqOf(set) ==
    LET RECURSIVE Build(_)
        Build(todo) == IF todo = {} THEN <<>>
                       ELSE LET x == CHOOSE y \in todo : \A z \in todo : y <= z
                            IN  <<x>> \o Build(todo \ {x})
    IN  Build(set)

\* Every user has signed up; who follows whom is any such graph.
InitSignedUp ==
    /\ users = ObjectIds
    /\ emailOf = [u \in ObjectIds |-> u]
    /\ \E g \in SUBSET Edges :
          /\ following = [u \in ObjectIds |-> SeqOf({v \in ObjectIds : <<u, v>> \in g})]
          /\ followers = [u \in ObjectIds |-> SeqOf({v \in ObjectIds : <<v, u>> \in g})]
    /\ posts = {}
    /\ post = [p \in PostIds |-> NewPost]
    /\ pc = [r \in Slots |-> "idle"]
    /\ req = [r \in Slots |-> NoReq]
    /\ loc = [r \in Slots |-> NoLoc]
    /\ res = [r \in Slots |-> NoRes]
    /\ hist = [wrote |-> FALSE, fwd |-> FALSE, back |-> FALSE, pre |-> post,
               again |-> FALSE, first |-> post, last |-> <<>>]

\* MaxSlots requests, one per slot, their steps interleaved in any way, after
\* every user has signed up: well-formed ids in the canonical spelling, a
\* store that does not fail.
GraphConcNext ==
    \E r \in Slots :
        \/ \E userId, targetId \in ObjectIds \X Canonical :
              \/ FollowBegin(r, userId, targetId, FALSE)
              \/ UnfollowBegin(r, userId, targetId, FALSE)
        \/ GraphSteps(r)

GraphConc == InitSignedUp /\ [][GraphConcNext]_vars

\* ------------------------------------------------------- like ledger
PostSteps(r) ==
    \/ CreatePostSave(r)
    \/ LikeFindPost(r)
    \/ LikeSave(r)

\* Posts and likes, requests served one after another: ids in any spelling,
\* empty and malformed ones included, storage calls that may fail.
LikeSeqNext ==
    \/ \E userId \in IdStrings(ObjectIds, AnyCase), text \in {Empty, Text} :
          CreatePostBegin(1, userId, text, TRUE)
    \/ \E postId \in IdStrings(PostIds, AnyCase), userId \in IdStrings(ObjectIds, AnyCase) :
          ToggleLikeBegin(1, postId, userId, TRUE)
    \/ PostSteps(1)
    \/ StorageFailure(1)
    \/ Retire(1)

LikeSeq == Init /\ [][LikeSeqNext]_vars

\* Every user has signed up and user 1 has posted every post; each post is
\* liked by any set of users, as canonical requests served one after another
\* leave it.
InitPosted ==
    /\ users = ObjectIds
    /\ emailOf = [u \in ObjectIds |-> u]
    /\ following = [u \in ObjectIds |-> <<>>]
    /\ followers = [u \in ObjectIds |-> <<>>]
    /\ posts = PostIds
    /\ post \in [PostIds -> {[NewPost EXCEPT !.userId = 1, !.likedBy = SeqOf(by),
                                              !.likes = Cardinality(by),
                                              !.createdAt = 1] :
                             by \in SUBSET ObjectIds}]
    /\ pc = [r \in Slots |-> "idle"]
    /\ req = [r \in Slots |-> NoReq]
    /\ loc = [r \in Slots |-> NoLoc]
    /\ res = [r \in Slots |-> NoRes]
    /\ hist = [wrote |-> FALSE, fwd |-> FALSE, back |-> FALSE, pre |-> post,
               again |-> FALSE, first |-> post, last |-> <<>>]

\* MaxSlots like requests, one per slot, their steps interleaved in any way:
\* well-formed ids in the canonical spelling, a store that does not fail.
LikeConcNext ==
    \E r \in Slots :
        \/ \E postId \in PostIds \X Canonical, userId \in ObjectIds \X Canonical :
              ToggleLikeBegin(r, postId, userId, FALSE)
        \/ LikeFindPost(r)
        \/ LikeSave(r)

LikeConc == InitPosted /\ [][LikeConcNext]_vars

\* ------------------------------------------- posts, authors and likers
\* No request has come in yet.
NoRequests ==
    /\ pc = [r \in Slots |-> "idle"]
    /\ req = [r \in Slots |-> NoReq]
    /\ loc = [r \in Slots |-> NoLoc]
    /\ res = [r \in Slots |-> NoRes]
    /\ hist = [wrote |-> FALSE, fwd |-> FALSE, back |-> FALSE, pre |-> post,
               again |-> FALSE, first |-> post, last |-> <<>>]

\* User 1 has signed up and nobody else; nothing is posted.
InitOneUser ==
    /\ users = {1}
    /\ emailOf = [u \in ObjectIds |-> IF u = 1 THEN 1 ELSE 0]
    /\ following = [u \in ObjectIds |-> <<>>]
    /\ followers = [u \in ObjectIds |-> <<>>]
    /\ posts = {}
    /\ post = [p \in PostIds |-> NewPost]
    /\ NoRequests

\* Posts and likes as in LikeSeq, user 1 being stored and the other ids not.
LikeOneUser == InitOneUser /\ [][LikeSeqNext]_vars

\* Posts created and listed, requests served one after another: user 1 is
\* stored and the other ids are not; ids in the canonical spelling, the
\* filter of a listing absent, malformed or an id.
ListSeqNext ==
    \/ \E userId \in ObjectIds \X Canonical : CreatePostBegin(1, userId, Text, TRUE)
    \/ \E userId \in IdStrings(ObjectIds, Canonical) : ListBegin(1, userId, TRUE)
    \/ CreatePostSave(1)
    \/ ListFind(1)
    \/ StorageFailure(1)
    \/ Retire(1)

ListSeq == InitOneUser /\ [][ListSeqNext]_vars

\* ------------------------------------------------------------- shares
\* MaxSlots share requests, one per slot, their steps interleaved in any way,
\* on posts that exist: ids in the canonical spelling, a store that does not
\* fail.
ShareConcNext ==
    \E r \in Slots :
        \/ \E postId \in PostIds \X Canonical, userId \in ObjectIds \X Canonical :
              ShareBegin(r, postId, userId, FALSE)
        \/ ShareFindPost(r)
        \/ ShareSave(r)

ShareConc == InitPosted /\ [][ShareConcNext]_vars

\* Every user has signed up and user 1 has posted the first post.
InitFirstPost ==
    /\ users = ObjectIds
    /\ emailOf = [u \in ObjectIds |-> u]
    /\ following = [u \in ObjectIds |-> <<>>]
    /\ followers = [u \in ObjectIds |-> <<>>]
    /\ posts = {1}
    /\ post = [p \in PostIds |-> IF p = 1 THEN [NewPost EXCEPT !.userId = 1, !.createdAt = 1]
                                            ELSE NewPost]
    /\ NoRequests

\* The response has gone out and the slot is free for another request, the
\* history being kept.
Leave(r) ==
    /\ pc[r] = "done"
    /\ pc' = [pc EXCEPT ![r] = "idle"]
    /\ req' = [req EXCEPT ![r] = NoReq]
    /\ res' = [res EXCEPT ![r] = NoRes]
    /\ UNCHANGED <<users, emailOf, following, followers, posts, post, loc, hist>>

\* Shares, likes and comments, any number of requests, at most MaxSlots of
\* them at a time, their steps interleaved in any way: ids in the canonical
\* spelling, a store that does not fail.
EngageConcNext ==
    \E r \in Slots :
        \/ \E postId \in PostIds \X Canonical, userId \in ObjectIds \X Canonical :
              \/ ShareBegin(r, postId, userId, FALSE)
              \/ ToggleLikeBegin(r, postId, userId, FALSE)
              \/ CommentBegin(r, postId, userId, Text, FALSE)
        \/ ShareFindPost(r)
        \/ ShareSave(r)
        \/ LikeFindPost(r)
        \/ LikeSave(r)
        \/ CommentFindPost(r)
        \/ CommentSave(r)
        \/ CommentPopulate(r)
        \/ Leave(r)

EngageConc == InitFirstPost /\ [][EngageConcNext]_vars

\* ----------------------------------------------------------- comments
\* Comments, shares and likes, requests served one after another, the first
\* post being stored and the others not: ids of a comment in the canonical
\* spelling, empty and malformed ones included, its text empty or not;
\* storage calls that may fail.
CommentSeqNext ==
    \/ \E postId \in IdStrings(PostIds, Canonical), userId \in IdStrings(ObjectIds, Canonical),
          commentText \in {Empty, Text} :
          CommentBegin(1, postId, userId, commentText, TRUE)
    \/ \E postId \in PostIds \X Canonical, userId \in ObjectIds \X Canonical :
          \/ ShareBegin(1, postId, userId, TRUE)
          \/ ToggleLikeBegin(1, postId, userId, TRUE)
    \/ CommentFindPost(1)
    \/ CommentSave(1)
    \/ CommentPopulate(1)
    \/ ShareFindPost(1)
    \/ ShareSave(1)
    \/ LikeFindPost(1)
    \/ LikeSave(1)
    \/ StorageFailure(1)
    \/ Retire(1)

\* User 1 has signed up and written post 1; the other ids name no stored
\* user, so a comment may come from a user that does not exist.
InitOneAuthor ==
    /\ users = {1}
    /\ emailOf = [u \in ObjectIds |-> IF u = 1 THEN 1 ELSE 0]
    /\ following = [u \in ObjectIds |-> <<>>]
    /\ followers = [u \in ObjectIds |-> <<>>]
    /\ posts = {1}
    /\ post = [p \in PostIds |-> IF p = 1 THEN [NewPost EXCEPT !.userId = 1, !.createdAt = 1]
                                            ELSE NewPost]
    /\ NoRequests

CommentSeq == InitOneAuthor /\ [][CommentSeqNext]_vars

\* ------------------------------------------------------- profile views
\* Follows and profile views, requests served one after another, after
\* every user has signed up: well-formed ids in any spelling, the viewer of
\* a profile absent, malformed or an id.
ViewSeqNext ==
    \/ \E userId, targetId \in ObjectIds \X AnyCase : FollowBegin(1, userId, targetId, TRUE)
    \/ \E id \in ObjectIds \X AnyCase, myId \in IdStrings(ObjectIds, AnyCase) :
          ProfileBegin(1, id, myId, TRUE)
    \/ FollowFindMe(1)
    \/ FollowFindThem(1)
    \/ FollowSaveMe(1)
    \/ FollowSaveThem(1)
    \/ ProfileFind(1)
    \/ Retire(1)

ViewSeq == InitSignedUp /\ [][ViewSeqNext]_vars

\* ------------------------------------------------------------ accounts
\* Signups and profile updates, any number of requests, at most MaxSlots of
\* them at a time, their steps interleaved in any way: ids in any spelling,
\* empty and malformed ones included, awaited calls that may fail.
AccountConcNext ==
    \E r \in Slots :
        \/ \E email \in {0} \cup Emails : SignupBegin(r, email, FALSE)
        \/ \E userId \in IdStrings(ObjectIds, AnyCase), email \in {0} \cup Emails :
              ProfileUpdateBegin(r, userId, email, FALSE)
        \/ SignupFindOne(r)
        \/ SignupHash(r)
        \/ SignupSave(r)
        \/ ProfileUpdateFind(r)
        \/ StorageFailure(r)
        \/ Leave(r)

AccountConc == Init /\ [][AccountConcNext]_vars

\* ================================================================ claims
Served(r, op) == pc[r] = "done" /\ req[r].op = op
Actor(r) == CastObjectId(req[r].a)
Target(r) == CastObjectId(req[r].b)
\* The string is a well-formed id of a stored user.
Names(s) == IsObjectId(s) /\ CastObjectId(s) \in users
Follows(a, b) == b \in Range(following[a])
FollowedBy(b, a) == a \in Range(followers[b])

\* C1: when follow(A,B) has answered 200, B is in A.following and A is in
\* B.followers, whatever the two arrays held before (requests served one
\* after another).
FollowSuccessLinksBoth ==
    \A r \in Slots :
        Served(r, "follow") /\ res[r].status = 200
            => Follows(Actor(r), Target(r)) /\ FollowedBy(Target(r), Actor(r))

\* C1's case: a follow between two different users that found neither side
\* of the edge, wrote, and answered 200.
FollowSuccessWitness ==
    \E r \in Slots :
        /\ Served(r, "follow") /\ res[r].status = 200
        /\ Actor(r) # Target(r)
        /\ ~hist.fwd /\ ~hist.back /\ hist.wrote

\* C2 as claimed: with no request in flight and no request answered with an
\* error, A is in B.followers exactly when B is in A.following, also when
\* the requests overlapped.
FollowGraphSymmetricAtRest ==
    (\A r \in Slots : Free(r) /\ res[r].status # 500)
        => \A a, b \in ObjectIds : FollowedBy(b, a) <=> Follows(a, b)

\* C3 as claimed: after a toggleLike has been served (requests served one
\* after another, posts created with likes 0 and likedBy empty), likes is
\* the number of entries of likedBy.  An entry is counted each time it
\* occurs, the reading kindest to the code.
LikesCountsLikedBy ==
    \A r \in Slots :
        Served(r, "like") => \A p \in posts : post[p].likes = Len(post[p].likedBy)

\* C4 as claimed: two toggleLike requests on one post by two different users,
\* neither in likedBy beforehand, both answered 200, in any interleaving:
\* both users are in likedBy and likes has grown by 2.
ConcurrentLikesKept ==
    \A r1, r2 \in Slots :
        ( /\ r1 # r2
          /\ \A r \in Slots : IF r \in {r1, r2}
                              THEN Served(r, "like") /\ res[r].status = 200
                              ELSE pc[r] = "idle"
          /\ Actor(r1) = Actor(r2)
          /\ Target(r1) # Target(r2)
          /\ Target(r1) \notin Range(hist.pre[Actor(r1)].likedBy)
          /\ Target(r2) \notin Range(hist.pre[Actor(r1)].likedBy) )
        => /\ {Target(r1), Target(r2)} \subseteq Range(post[Actor(r1)].likedBy)
           /\ post[Actor(r1)].likes = hist.pre[Actor(r1)].likes + 2

\* C5 as claimed: the second of two consecutive toggleLike(P,U) requests,
\* both answered 200, leaves likes and the members of likedBy as they were
\* before the first.
ToggleTwiceRestores ==
    \A r \in Slots :
        Served(r, "like") /\ hist.again /\ res[r].status = 200
            => /\ post[Actor(r)].likes = hist.first[Actor(r)].likes
               /\ Range(post[Actor(r)].likedBy) = Range(hist.first[Actor(r)].likedBy)

\* C6: follow with userId and targetId the same non-empty string is answered
\* 400, whether or not the string names a user, and writes nothing.
SelfFollowRejected ==
    \A r \in Slots :
        Served(r, "follow") /\ req[r].a = req[r].b /\ ~IsFalsy(req[r].a)
            => res[r].status = 400 /\ ~hist.wrote

\* C6's case: a follow of oneself by a stored user has been answered.
SelfFollowWitness ==
    \E r \in Slots :
        /\ Served(r, "follow") /\ req[r].a = req[r].b /\ Names(req[r].a)
        /\ res[r].status = 400
        /\ \E u \in users : following[u] # <<>>

\* C7 as claimed: no user is in its own following or in its own followers.
NobodyFollowsThemselves ==
    \A u \in ObjectIds : ~Follows(u, u) /\ ~FollowedBy(u, u)

\* C8 as claimed: the second of two consecutive follow(A,B) requests between
\* two different stored users, the first answered 200, is answered 200 (the
\* store not failing), writes nothing, and B is once in A.following and A
\* once in B.followers.
FollowTwiceIsFollowOnce ==
    \A r \in Slots :
        ( /\ Served(r, "follow") /\ hist.again
          /\ Names(req[r].a) /\ Names(req[r].b) /\ Actor(r) # Target(r)
          /\ res[r].err # "StorageFailure" )
        => /\ res[r].status = 200
           /\ ~hist.wrote
           /\ Count(following[Actor(r)], Target(r)) = 1
           /\ Count(followers[Target(r)], Actor(r)) = 1

\* C9: unfollow(A,B) between stored users, B not in A.following and A not in
\* B.followers when it came in, A = B included, writes nothing and is
\* answered 200 unless a storage call failed.
UnfollowAbsentIsNoop ==
    \A r \in Slots :
        ( /\ Served(r, "unfollow")
          /\ Names(req[r].a) /\ Names(req[r].b)
          /\ ~hist.fwd /\ ~hist.back )
        => /\ ~hist.wrote
           /\ res[r].status = 200 \/ res[r].err = "StorageFailure"

\* C9's case: such an unfollow has been answered 200 while B does follow A.
UnfollowAbsentWitness ==
    \E r \in Slots :
        /\ Served(r, "unfollow") /\ res[r].status = 200
        /\ Names(req[r].a) /\ Names(req[r].b) /\ Actor(r) # Target(r)
        /\ ~hist.fwd /\ ~hist.back
        /\ Follows(Target(r), Actor(r)) /\ FollowedBy(Actor(r), Target(r))

\* A follow or unfollow with two well-formed ids, one of which names no
\* stored user, that no storage failure ended.
Unresolved(r) ==
    /\ pc[r] = "done" /\ req[r].op \in {"follow", "unfollow"}
    /\ IsObjectId(req[r].a) /\ IsObjectId(req[r].b)
    /\ ~Names(req[r].a) \/ ~Names(req[r].b)
    /\ res[r].err # "StorageFailure"

\* C10 as claimed: every such request is answered 404 and writes nothing.
NotFoundWheneverUnresolved ==
    \A r \in Slots : Unresolved(r) => res[r].status = 404 /\ ~hist.wrote

\* C10 as amended: every such request is answered 404 and writes nothing,
\* unless it is a follow whose two ids are the same string (answered 400).
NotFoundWhenUnresolved ==
    \A r \in Slots :
        Unresolved(r) /\ (req[r].op = "follow" => req[r].a # req[r].b)
            => res[r].status = 404 /\ ~hist.wrote

\* C10's case: a follow by a stored user of a user that is not stored has
\* been answered 404.
NotFoundWitness ==
    \E r \in Slots :
        /\ Served(r, "follow") /\ res[r].status = 404
        /\ Names(req[r].a) /\ IsObjectId(req[r].b) /\ ~Names(req[r].b)

\* C18 as claimed: no id is twice in a following or in a followers array,
\* also after follow requests that overlapped.
NoDuplicateEdges ==
    \A u, v \in ObjectIds : Count(following[u], v) <= 1 /\ Count(followers[u], v) <= 1

\* C19 as claimed: a follow or unfollow answered with an error has written
\* nothing, a rejected storage call included.
FailedRequestWroteNothing ==
    \A r \in Slots :
        pc[r] = "done" /\ req[r].op \in {"follow", "unfollow"} /\ res[r].status # 200
            => ~hist.wrote


\* C11 as claimed: a toggleLike on a stored post by a well-formed id that
\* names no stored user is answered 404 and writes nothing.
LikeByAbsentUserNotFound ==
    \A r \in Slots :
        ( /\ Served(r, "like") /\ res[r].err # "StorageFailure"
          /\ IsObjectId(req[r].a) /\ CastObjectId(req[r].a) \in posts
          /\ IsObjectId(req[r].b) /\ ~Names(req[r].b) )
        => res[r].status = 404 /\ ~hist.wrote

\* C20 as claimed: the author of every stored post is a stored user.
AuthorsAreUsers ==
    \A p \in posts : post[p].userId \in users

\* C16 as claimed: a listing answered 200 holds exactly the stored posts of
\* the author asked for (all posts with no author given), each with the
\* length of its comments, newer posts first, and the listing repeated with
\* no write in between is answered with the same sequence.
ListingExactSortedRepeatable ==
    \A r \in Slots :
        Served(r, "list") /\ res[r].status = 200
            => LET body == res[r].body
               IN  /\ {body[i].id : i \in 1..Len(body)}
                        = {p \in posts : IsFalsy(req[r].a)
                                         \/ post[p].userId = CastObjectId(req[r].a)}
                   /\ \A i, j \in 1..Len(body) : i # j => body[i].id # body[j].id
                   /\ \A i \in 1..Len(body) :
                         body[i].comments = Len(post[body[i].id].comments)
                   /\ \A i, j \in 1..Len(body) :
                         i < j => post[body[i].id].createdAt >= post[body[j].id].createdAt
                   /\ hist.again => body = hist.last


\* C12 as claimed: once the share requests have all been answered 200,
\* shares of each post is what it was plus the number of requests that
\* shared it, whether the requests overlapped or not.
EveryShareCounts ==
    (\A r \in Slots : Free(r) /\ (pc[r] = "done" => req[r].op = "share" /\ res[r].status = 200))
        => \A p \in PostIds :
              post[p].shares = hist.pre[p].shares
                  + Cardinality({r \in Slots : pc[r] = "done" /\ CastObjectId(req[r].a) = p})

\* C13 as claimed: no step of any interleaving of share, like and comment
\* requests makes the stored shares of a post smaller, and shares is never
\* negative.
SharesNeverDecrease ==
    [][\A p \in PostIds : post'[p].shares >= post[p].shares /\ post'[p].shares >= 0]_vars


\* A prefix of.
IsPrefix(a, b) == Len(a) <= Len(b) /\ \A i \in 1..Len(a) : a[i] = b[i]

\* C14: a comment request answered 200 has left the post's earlier comments
\* as they were and in their order, has put one comment, with its author
\* and its text, after them, and has changed nothing else of any post; and
\* no step of any request removes, changes or reorders a stored comment.
CommentAppendsOne ==
    /\ [](\A r \in Slots :
            Served(r, "comment") /\ res[r].status = 200
                => LET p == CastObjectId(req[r].a)
                       comment == [userId |-> CastObjectId(req[r].b), text |-> CommentText(r)]
                   IN  post = [hist.pre EXCEPT ![p].comments = Append(@, comment)])
    /\ [][\A p \in PostIds : IsPrefix(post[p].comments, post'[p].comments)]_vars

\* C14's case: a comment by one user has been put after a comment by the
\* other, on a post that is liked and shared.
CommentAppendsWitness ==
    \E r \in Slots :
        /\ Served(r, "comment") /\ res[r].status = 200
        /\ LET p == CastObjectId(req[r].a)
           IN  /\ Len(post[p].comments) = 2
               /\ post[p].comments[1].userId # post[p].comments[2].userId
               /\ post[p].likes > 0 /\ post[p].shares > 0

\* C15: a comment request with an empty text is answered 400, one with a
\* text, a user id and a well-formed id of no stored post is answered 404
\* (the store not failing), and neither writes anything.
CommentRejected ==
    \A r \in Slots :
        Served(r, "comment") /\ res[r].err # "StorageFailure"
            => /\ IsFalsy(CommentText(r)) => res[r].status = 400 /\ ~hist.wrote
               /\ ( /\ ~IsFalsy(CommentText(r)) /\ req[r].b[2] # "empty"
                    /\ IsObjectId(req[r].a) /\ CastObjectId(req[r].a) \notin posts )
                  => res[r].status = 404 /\ ~hist.wrote

\* C15's case: a comment on a post that is not stored has been answered 404
\* while a stored post has a comment.
CommentRejectedWitness ==
    \E r \in Slots :
        /\ Served(r, "comment") /\ res[r].status = 404
        /\ ~IsFalsy(CommentText(r))
        /\ \E p \in posts : post[p].comments # <<>>


\* C17 as claimed: a profile view answered 200 reports the number of
\* followers and the number of followed users of the profile's user, and
\* isFollowing exactly when a viewer is given who is another user and is
\* among the followers.
ProfileViewAsSpecified ==
    \A r \in Slots :
        Served(r, "profile") /\ res[r].status = 200
            => LET view == res[r].body[1]
                   u == CastObjectId(req[r].a)
                   myId == req[r].b
               IN  /\ view.followersCount = Cardinality(Range(followers[u]))
                   /\ view.followingCount = Cardinality(Range(following[u]))
                   /\ view.isFollowing <=> /\ IsObjectId(myId)
                                           /\ CastObjectId(myId) # u
                                           /\ FollowedBy(u, CastObjectId(myId))


====
